---- MODULE Spec2Model ----
(***************************************************************************)
(* A model of the /whatsapp webhook handler of the fact-check bot, in its  *)
(* three revisions:                                                        *)
(*   "part_001"  the basic handler   (src/unnamed/part_001, lines 41-69)   *)
(*   "index.js"  the vision handler  (src/index.js, lines 323-492)         *)
(*   "part_002"  the OCR handler with the REST push fallback               *)
(*               (src/unnamed/part_002, lines 346-670)                     *)
(*                                                                         *)
(* TEXT.  A JavaScript string is modelled as a sequence of chunks          *)
(* [c |-> <what>, n |-> <UTF-16 length>]:                                  *)
(*   c = "x"      a run of n plain letters (no character any regular       *)
(*                expression of the program looks for);                    *)
(*   c = one of the characters the program's regular expressions look for  *)
(*                ("*", "#", "&", "<", ">", "[", "]", "1" (a digit), ",",  *)
(*                "-", "_", ".", " ", "NL" (line feed), "CTRL", "bullet"), *)
(*                n = 1;                                                   *)
(*   otherwise    a literal piece of text of n characters (a word the      *)
(*                keyword scan looks for, a URL scheme, an emoji, a fixed  *)
(*                notice of the program); a piece cut by substring keeps   *)
(*                its c and has a smaller n.                               *)
(* The length of a text is the sum of its n, so that answers of thousands  *)
(* of characters stay small values.                                        *)
(***************************************************************************)
EXTENDS Integers, Sequences, FiniteSets, TLC

Ch(s) == [c |-> s, n |-> 1]

Lit(s, k) == [c |-> s, n |-> k]

Fill(k) == [c |-> "x", n |-> k]

SP == Ch(" ")

NL == Ch("NL")

STAR == Ch("*")

Max(S) == CHOOSE m \in S : \A o \in S : o <= m

Min(S) == CHOOSE m \in S : \A o \in S : m <= o

\* String.prototype.length
RECURSIVE TextLen(_)
TextLen(t) == IF t = <<>> THEN 0 ELSE Head(t).n + TextLen(Tail(t))

\* Canonical form of a text value: no empty chunk, adjacent runs of plain
\* letters merged (two sequences that denote the same string are equal).
RECURSIVE Norm(_)
Norm(t) ==
  IF t = <<>> THEN <<>>
  ELSE IF Head(t).n = 0 THEN Norm(Tail(t))
  ELSE IF Len(t) >= 2 /\ t[1].c = "x" /\ t[2].c = "x"
       THEN Norm(<<Fill(t[1].n + t[2].n)>> \o SubSeq(t, 3, Len(t)))
  ELSE <<Head(t)>> \o Norm(Tail(t))

\* The regular-expression class \s
IsSpace(e) == e.c \in {" ", "NL"}

RECURSIVE TrimLeft(_)
TrimLeft(t) == IF t # <<>> /\ IsSpace(Head(t)) THEN TrimLeft(Tail(t)) ELSE t

RECURSIVE TrimRight(_)
TrimRight(t) ==
  IF t # <<>> /\ IsSpace(t[Len(t)]) THEN TrimRight(SubSeq(t, 1, Len(t) - 1)) ELSE t

\* String.prototype.trim
Trim(t) == TrimRight(TrimLeft(t))

\* String.prototype.substring(0, k)
RECURSIVE Substring0(_, _)
Substring0(t, k) ==
  IF k <= 0 \/ t = <<>> THEN <<>>
  ELSE IF Head(t).n <= k THEN <<Head(t)>> \o Substring0(Tail(t), k - Head(t).n)
  ELSE <<[c |-> Head(t).c, n |-> k]>>

\* String.prototype.split('\n')
RECURSIVE SplitLines(_)
SplitLines(t) ==
  IF \A i \in 1..Len(t) : t[i].c # "NL" THEN <<t>>
  ELSE LET i == Min({j \in 1..Len(t) : t[j].c = "NL"})
       IN <<SubSeq(t, 1, i - 1)>> \o SplitLines(SubSeq(t, i + 1, Len(t)))

\* The chunks pat (a sequence of characters) stand at position i of t.
MatchAt(t, i, pat) ==
  /\ i + Len(pat) - 1 <= Len(t)
  /\ \A d \in 1..Len(pat) : t[i + d - 1].c = pat[d] /\ t[i + d - 1].n = 1

\* Where the lazy group (.*?) of /open(.*?)close/ can end for a match that
\* starts at i: the positions j of close with no line feed between.
Closers(t, i, open, close) ==
  {j \in (i + Len(open))..Len(t) :
     /\ MatchAt(t, j, close)
     /\ \A m \in (i + Len(open))..(j - 1) : t[m].c # "NL"}

\* text.replace(/open(.*?)close/g, pre + '$1' + post), scanning from position i
RECURSIVE ReplaceDelim(_, _, _, _, _, _)
ReplaceDelim(t, i, open, close, pre, post) ==
  IF i > Len(t) THEN <<>>
  ELSE IF MatchAt(t, i, open) /\ Closers(t, i, open, close) # {}
       THEN LET j == Min(Closers(t, i, open, close))
            IN pre \o SubSeq(t, i + Len(open), j - 1) \o post
                 \o ReplaceDelim(t, j + Len(close), open, close, pre, post)
  ELSE <<t[i]>> \o ReplaceDelim(t, i + 1, open, close, pre, post)

\* The end of the longest run of chunks of class cls that starts at i (i - 1
\* when t[i] is not of the class).
RECURSIVE RunEnd(_, _, _)
RunEnd(t, i, cls) ==
  IF i <= Len(t) /\ t[i].c \in cls THEN RunEnd(t, i + 1, cls) ELSE i - 1

\* text.replace(/\[([\d,\[\]]+)\]/g, ''), scanning from position i: the greedy
\* class run after "[" is given back up to its last "]".
RefClass == {"1", ",", "[", "]"}

RECURSIVE RemoveRefs(_, _)
RemoveRefs(t, i) ==
  IF i > Len(t) THEN <<>>
  ELSE LET r == RunEnd(t, i + 1, RefClass)
           ends == {j \in (i + 2)..r : t[j].c = "]"}
       IN IF t[i].c = "[" /\ ends # {}
          THEN RemoveRefs(t, Max(ends) + 1)
          ELSE <<t[i]>> \o RemoveRefs(t, i + 1)

\* text.replace(/\n\s*\n\s*\n/g, '\n\n'), scanning from position i: a line
\* feed and the white space after it, up to the last line feed of that run,
\* when the run holds two more line feeds.
RECURSIVE CollapseBlankLines(_, _)
CollapseBlankLines(t, i) ==
  IF i > Len(t) THEN <<>>
  ELSE LET r == RunEnd(t, i + 1, {" ", "NL"})
           nls == {j \in (i + 1)..r : t[j].c = "NL"}
       IN IF t[i].c = "NL" /\ Cardinality(nls) >= 2
          THEN <<NL, NL>> \o CollapseBlankLines(t, Max(nls) + 1)
          ELSE <<t[i]>> \o CollapseBlankLines(t, i + 1)

\* text.replace(/ch/g, rep) for a single character ch
RECURSIVE ReplaceChar(_, _, _)
ReplaceChar(t, ch, rep) ==
  IF t = <<>> THEN <<>>
  ELSE (IF Head(t).c = ch /\ Head(t).n = 1 THEN rep ELSE <<Head(t)>>)
         \o ReplaceChar(Tail(t), ch, rep)

\* The entities written by the escaping: "&amp;" is "&" followed by "amp;".
EntAmp == <<Ch("&"), Lit("amp;", 4)>>

EntLt == <<Ch("&"), Lit("lt;", 3)>>

EntGt == <<Ch("&"), Lit("gt;", 3)>>

\* Sanitize text for WhatsApp/XML
sanitizeForXML(text) ==
  LET s1 == ReplaceDelim(text, 1, <<"*", "*">>, <<"*", "*">>, <<>>, <<>>)
      s2 == ReplaceDelim(s1, 1, <<"*">>, <<"*">>, <<>>, <<>>)
      s3 == ReplaceDelim(s2, 1, <<"-", " ", "*", "*">>, <<"*", "*">>,
                         <<Ch("bullet"), SP>>, <<>>)
      s4 == RemoveRefs(s3, 1)
      s5 == CollapseBlankLines(s4, 1)
      s6 == ReplaceChar(s5, "&", EntAmp)
      s7 == ReplaceChar(s6, "<", EntLt)
      s8 == ReplaceChar(s7, ">", EntGt)
      s9 == ReplaceChar(s8, "CTRL", <<>>)
  IN Norm(Trim(s9))

\* text.replace(/^#{1,3}\s+(.*)/gm, '*$1*'), scanning from position i
RECURSIVE HeadersToBold(_, _)
HeadersToBold(t, i) ==
  IF i > Len(t) THEN <<>>
  ELSE LET h == RunEnd(t, i, {"#"})
           w == RunEnd(t, h + 1, {" ", "NL"})
           e == Min({j \in (w + 1)..(Len(t) + 1) : j = Len(t) + 1 \/ t[j].c = "NL"})
       IN IF /\ (i = 1 \/ t[i - 1].c = "NL")
             /\ h - i + 1 \in 1..3
             /\ w > h
          THEN <<STAR>> \o SubSeq(t, w + 1, e - 1) \o <<STAR>> \o HeadersToBold(t, e)
          ELSE <<t[i]>> \o HeadersToBold(t, i + 1)

\* text.replace(/^•\s+/gm, '• '), scanning from position i
RECURSIVE KeepBullets(_, _)
KeepBullets(t, i) ==
  IF i > Len(t) THEN <<>>
  ELSE LET w == RunEnd(t, i + 1, {" ", "NL"})
       IN IF (i = 1 \/ t[i - 1].c = "NL") /\ t[i].c = "bullet" /\ w > i
          THEN <<Ch("bullet"), SP>> \o KeepBullets(t, w + 1)
          ELSE <<t[i]>> \o KeepBullets(t, i + 1)

\* text.replace(/\n{3,}/g, '\n\n'), scanning from position i
RECURSIVE LimitLineBreaks(_, _)
LimitLineBreaks(t, i) ==
  IF i > Len(t) THEN <<>>
  ELSE LET r == RunEnd(t, i, {"NL"})
       IN IF r - i + 1 >= 3
          THEN <<NL, NL>> \o LimitLineBreaks(t, r + 1)
          ELSE <<t[i]>> \o LimitLineBreaks(t, i + 1)

\* Format response text with better markdown
formatResponse(text) ==
  LET f1 == ReplaceDelim(text, 1, <<"*", "*">>, <<"*", "*">>, <<STAR>>, <<STAR>>)
      f2 == ReplaceDelim(f1, 1, <<"*">>, <<"*">>, <<Ch("_")>>, <<Ch("_")>>)
      f3 == HeadersToBold(f2, 1)
      f4 == KeepBullets(f3, 1)
      f5 == LimitLineBreaks(f4, 1)
  IN Norm(f5)

\* The URL schemes /https?:\/\// can match.
Schemes == {"http://", "https://"}

SchemeLen(c) == IF c = "http://" THEN 7 ELSE 8

\* Where /(https?:\/\/[^\s]+)/ matches in t: a whole scheme followed by at
\* least one character that is not white space.
UrlStarts(t) ==
  {i \in 1..Len(t) :
     /\ t[i].c \in Schemes /\ t[i].n = SchemeLen(t[i].c)
     /\ i < Len(t) /\ ~IsSpace(t[i + 1])}

RECURSIVE NonSpaceEnd(_, _)
NonSpaceEnd(t, i) ==
  IF i <= Len(t) /\ ~IsSpace(t[i]) THEN NonSpaceEnd(t, i + 1) ELSE i - 1

extractURL_LastMatch(message) ==
  IF UrlStarts(message) = {} THEN <<>>
  ELSE LET i == Max(UrlStarts(message))
       IN SubSeq(message, i, NonSpaceEnd(message, i + 1))

\* Extract URLs from text: the first match, or null (the empty sequence; a
\* match is never empty).
extractURL(message) ==
  IF UrlStarts(message) = {} THEN <<>>
  ELSE LET i == Min(UrlStarts(message))
       IN SubSeq(message, i, NonSpaceEnd(message, i + 1))

(***************************************************************************)
(* The fixed texts of the program.                                         *)
(***************************************************************************)
Msg(s, k) == <<Lit(s, k)>>

PleaseSend(v) ==
  IF v = "part_001" THEN Msg("Please send me a message to process!", 36)
  ELSE IF v = "index.js"
       THEN Msg("Please send me a message, audio, or image to process!", 53)
  ELSE Msg("Please send me a message or audio to process!", 45)

AudioNotConfigured ==
  Msg("Audio processing is not configured yet. Please send a text message instead. To enable audio, configure your Twilio Auth Token in the .env file.", 143)

ImageNotConfigured ==
  Msg("Image processing is not configured yet. Please send a text message instead. To enable image processing, configure your Twilio Auth Token in the .env file.", 154)

TranscribeFailed ==
  Msg("Sorry, I couldn't transcribe the audio. Please try again or send a text message.", 80)

AudioTrouble ==
  Msg("Sorry, I had trouble processing the audio. Please try sending a text message instead.", 85)

ImageTrouble(v) ==
  IF v = "index.js"
  THEN Msg("Sorry, I had trouble analyzing the image. Please try again or send a text message.", 82)
  ELSE Msg("Sorry, I had trouble processing the image. Please try sending a text message instead.", 85)

OcrEmpty ==
  Msg("Sorry, I couldn't extract any text from the image. Please try again with a clearer image or send a text message.", 112)

UrlFailed ==
  Msg("Sorry, I couldn't process the content from that URL. Please try sending the text directly or try again later.", 109)

Apology == Msg("Sorry, I'm having trouble processing your request right now.", 60)

NoAnswer == Msg("I couldn't find an answer.", 26)

ErrorGenerating == Msg("Error generating response", 25)

VisionNotAvailable ==
  Msg("Image analysis not available. Please configure Google Cloud Vision.", 67)

VisionError == Msg("Error analyzing image. Please try again.", 40)

ScamFailed == Msg("Could not check scam status.", 28)

NoAdditionalData == Msg("No additional data", 18)

\* The notices that end the bounded answer: a clipboard emoji (two UTF-16
\* units) and the words.
FullAnalysisNotice == <<Lit("CLIPBOARD", 2), Lit(" Full analysis available on request", 35)>>

TruncatedNotice == <<Lit("...", 3), NL, NL, Lit("CLIPBOARD", 2), Lit(" Truncated", 10)>>

MessageTruncatedNotice ==
  <<Lit("...", 3), NL, NL, Lit("CLIPBOARD", 2), Lit(" Message truncated", 18)>>

(***************************************************************************)
(* The limits of the bounding step of part_002.                            *)
(***************************************************************************)
WhatsAppLimit == 1500

HardCut == 1450

ContentBudget == 1200

LongLine == 150

LineCut == 120

\* lines.filter(line => line.trim())
NonEmptyLines(t) == SelectSeq(SplitLines(t), LAMBDA l : Trim(l) # <<>>)

\* The loop that keeps whole short lines and the head of long ones while the
\* content is under its budget, from line i (the line after the status line).
RECURSIVE CollectContent(_, _, _)
CollectContent(lines, i, content) ==
  IF i <= Len(lines) /\ TextLen(content) < ContentBudget
  THEN CollectContent(lines, i + 1,
         content \o (IF TextLen(lines[i]) < LongLine
                     THEN lines[i] \o <<NL>>
                     ELSE Substring0(lines[i], LineCut) \o <<Lit("...", 3), NL>>))
  ELSE content

\* The optimized version without lines[0]: the content alone and the notice,
\* cut as usual
OptimizedResponse_DropsStatus(t) ==
  LET lines == NonEmptyLines(t)
      content == CollectContent(lines, 2, <<>>)
      shortened == Trim(content) \o <<NL, NL>> \o FullAnalysisNotice
  IN IF TextLen(shortened) > WhatsAppLimit
     THEN Substring0(shortened, HardCut) \o TruncatedNotice
     ELSE shortened

\* The "optimized version" of a sanitized answer that is over the limit.
OptimizedResponse(t) ==
  LET lines == NonEmptyLines(t)
      verificationLine == IF lines = <<>> THEN Msg("undefined", 9) ELSE lines[1]
      content == CollectContent(lines, 2, <<>>)
      shortened == verificationLine \o <<NL, NL>> \o Trim(content) \o <<NL, NL>>
                     \o FullAnalysisNotice
  IN IF TextLen(shortened) > WhatsAppLimit
     THEN Substring0(shortened, HardCut) \o TruncatedNotice
     ELSE shortened

\* Step 6 of the text/image path: the text given to twiml.message
BoundedResponse(finalResponse) ==
  LET t == sanitizeForXML(finalResponse)
  IN Norm(IF TextLen(t) > WhatsAppLimit THEN OptimizedResponse(t) ELSE t)

\* The body of the REST push without its length check
RestBody_Uncut(finalResponse) == Norm(finalResponse)

\* The body of the REST push
RestBody(finalResponse) ==
  Norm(IF TextLen(finalResponse) > WhatsAppLimit
       THEN Substring0(finalResponse, HardCut) \o MessageTruncatedNotice
       ELSE finalResponse)

(***************************************************************************)
(* The keyword scan of part_002.  The words of an answer that hold one of  *)
(* its indicator words, with the indicators their lower case contains.     *)
(***************************************************************************)
Indicators(c) ==
  CASE c \in {"VERIFIED", "verified"} -> {"verified"}
    [] c \in {"UNVERIFIED/FAKE"} -> {"unverified", "verified", "fake"}
    [] c \in {"unverified"} -> {"unverified", "verified"}
    [] c \in {"TRUE", "true"} -> {"true"}
    [] c \in {"false"} -> {"false"}
    [] c \in {"inaccurate"} -> {"inaccurate", "accurate"}
    [] c \in {"scam"} -> {"scam"}
    [] OTHER -> {}

WordLen(c) ==
  CASE c \in {"VERIFIED", "verified"} -> 8
    [] c \in {"UNVERIFIED/FAKE"} -> 15
    [] c \in {"unverified", "inaccurate"} -> 10
    [] c \in {"TRUE", "true", "scam"} -> 4
    [] c \in {"false"} -> 5
    [] OTHER -> 0

\* aiResponse.toLowerCase().includes(word)
Includes(t, word) ==
  \E i \in 1..Len(t) : word \in Indicators(t[i].c) /\ t[i].n = WordLen(t[i].c)

PositiveWords == {"verified", "true", "accurate", "correct", "factual", "legitimate"}

NegativeWords ==
  {"unverified", "false", "fake", "misinformation", "scam", "misleading", "inaccurate"}

\* Determine verification status from AI response
getVerificationStatus(aiResponse) ==
  IF \E w \in PositiveWords : Includes(aiResponse, w)
  THEN <<Lit("CHECK", 1), SP, Lit("VERIFIED", 8), SP, Lit("TRUE", 4)>>
  ELSE IF \E w \in NegativeWords : Includes(aiResponse, w)
  THEN <<Lit("CROSS", 1), SP, Lit("VERIFIED", 8), SP, Lit("FAKE", 4)>>
  ELSE <<Lit("WARNING", 2), SP, Lit("VERIFICATION UNCLEAR", 20)>>

(***************************************************************************)
(* The inputs: the inbound request, the configuration, and what the        *)
(* external providers answer.                                              *)
(***************************************************************************)
ShortLen == 3

LongLen == 1600

LineLen == 140

ManyLines == 12

Variants == {"part_001", "index.js", "part_002"}

MediaTypes == {"none", "audio/ogg", "image/jpeg", "video/mp4"}

\* mediaType && mediaType.startsWith("audio")
IsAudio(m) == m = "audio/ogg"

\* mediaType && mediaType.startsWith("image")
IsImage(m) == m = "image/jpeg"

UrlA == <<Lit("https://", 8), Fill(ShortLen)>>

UrlB == <<Lit("http://", 7), Fill(ShortLen + 1)>>

\* req.body.Body of a form with two Body parameters: an array, not a string
BodyList == <<Lit("[Body, Body]", 2)>>

\* req.body.Body
Bodies ==
  { <<>>,
    <<SP, NL, SP>>,
    <<SP, Fill(ShortLen), SP>>,
    <<Lit("http://", 7)>>,
    UrlA,
    <<Fill(ShortLen), SP>> \o UrlA \o <<SP>> \o UrlB }

\* What Deepgram hears in a voice clip
Transcripts ==
  { <<Fill(ShortLen)>>,
    <<Fill(ShortLen), SP, Ch("&"), SP>> \o UrlB,
    <<Fill(LongLen)>> }

\* What Tesseract reads in an image (before text.trim())
OcrTexts == { <<Fill(ShortLen), NL>>, UrlA \o <<NL>>, <<SP, NL>> }

\* What the vision provider finds in an image: the text, the number of labels
\* and the number of localized objects
DetectedTexts == { <<>>, <<Fill(ShortLen), SP>> \o UrlB }

LabelCounts == {0, 6}

ObjectCounts == {0, 4}

\* The transcript the content-extraction service returns for a URL
ApiTranscripts == { <<Fill(ShortLen), SP, Ch("<"), Fill(ShortLen)>> }

RECURSIVE Repeat(_, _)
Repeat(t, k) == IF k <= 0 THEN <<>> ELSE t \o Repeat(t, k - 1)

\* The answers of the reasoning provider
Replies ==
  { <<Lit("CHECK", 1), SP, Lit("VERIFIED", 8), NL, Fill(ShortLen), Ch("."), SP,
      Fill(ShortLen), Ch("."), SP, Fill(ShortLen)>>,
    <<Lit("CROSS", 1), SP, Lit("UNVERIFIED/FAKE", 15), NL, NL, NL, Ch("#"), SP,
      STAR, STAR, Fill(ShortLen), STAR, STAR, SP, Ch("&"), Ch("["), Ch("1"), Ch("]")>>,
    <<Fill(LongLen)>>,
    <<SP, NL>>,
    <<Lit("WARNING", 2), SP, Lit("PARTIALLY", 9), SP, Lit("TRUE", 4), NL>>
      \o Repeat(<<Fill(LineLen), NL>>, ManyLines) \o <<Fill(LongLen)>> }

\* The score field of the risk lookup's answer (absent: <<>>)
ScamScores == { <<>>, <<Ch("1"), Ch("1")>> }

VARIABLES
  variant,      \* the revision of the handler that serves the request
  env,          \* process.env and the clients made at start-up
  req,          \* req.body
  pc,           \* where the handler stands
  userMessage,  \* let userMessage
  inputType,    \* let inputType (index.js)
  toolData,     \* let toolData (index.js)
  reply,        \* const reply
  finalResponse,\* let finalResponse (part_002) / const formattedReply (index.js)
  audioFile,    \* the name of the synthesized file, <<>> for null
  twiml,        \* the messages of the MessagingResponse
  files,        \* the audio files written to the serving directory
  calls,        \* for each external provider, how many times it was called (n)
                \* and what the function in front of it returned last
  scamArgs,     \* the URLs given to scamMinderTool
  sonarQuery,   \* the user content of the requests to the reasoning provider
  pushBodies,   \* the bodies given to twilioClient.messages.create
  pushed,       \* the bodies the push delivered
  out           \* the bodies written by res.end

vars == <<variant, env, req, pc, userMessage, inputType, toolData, reply,
          finalResponse, audioFile, twiml, files, calls, scamArgs, sonarQuery,
          pushBodies, pushed, out>>

inputs == <<variant, env, req>>

Providers ==
  {"download", "transcribe", "vision", "ocr", "scam", "transcriptApi", "sonar",
   "elevenlabs", "deepgramTts", "push"}

\* The provider p called a second time after its answer
Called_Retried(p, r) == [calls EXCEPT ![p] = [n |-> @.n + 2, last |-> r]]

\* The provider p was called and answered with result r
Called(p, r) == [calls EXCEPT ![p] = [n |-> @.n + 1, last |-> r]]

\* The function in front of provider p returned r without calling it
NotCalled(p, r) == [calls EXCEPT ![p] = [n |-> @.n, last |-> r]]

\* const TTS_PROVIDER
TTS_PROVIDER ==
  IF env.ttsEnv # "unset" THEN env.ttsEnv
  ELSE IF env.elevenKey THEN "elevenlabs" ELSE "deepgram"

\* !process.env.TWILIO_AUTH_TOKEN || process.env.TWILIO_AUTH_TOKEN === 'your_twilio_auth_token_here'
TokenNotConfigured == env.token \in {"unset", "placeholder"}

\* !process.env.TWILIO_ACCOUNT_SID || !process.env.TWILIO_AUTH_TOKEN
CredentialsMissing == ~env.sid \/ env.token = "unset"

\* twiml.message(body), with its media children
Message(body, media) == [body |-> body, media |-> media]

\* res.end(twiml.toString())
TwimlOut(tw) == [kind |-> "twiml", messages |-> tw]

\* res.end('<Response></Response>')
EmptyAck == [kind |-> "empty", messages |-> <<>>]

Envs(v) ==
  IF v = "part_001"
  THEN {[sid |-> TRUE, token |-> "set", deepgram |-> TRUE, vision |-> TRUE,
         elevenKey |-> FALSE, ttsEnv |-> "unset"]}
  ELSE IF v = "part_002"
  THEN [sid : BOOLEAN, token : {"unset", "placeholder", "set"}, deepgram : BOOLEAN,
        vision : {TRUE}, elevenKey : {FALSE}, ttsEnv : {"unset"}]
  ELSE [sid : BOOLEAN, token : {"unset", "placeholder", "set"}, deepgram : BOOLEAN,
        vision : BOOLEAN, elevenKey : BOOLEAN,
        ttsEnv : {"unset", "elevenlabs", "deepgram"}]

Init ==
  /\ variant \in Variants
  /\ env \in Envs(variant)
  /\ req \in [hasBody : BOOLEAN, Body : Bodies, MediaContentType0 : MediaTypes]
  /\ req.hasBody \/ req.Body = <<>>
  /\ pc = "start"
  /\ userMessage = <<>>
  /\ inputType = "text"
  /\ toolData = <<>>
  /\ reply = <<>>
  /\ finalResponse = IF variant = "part_002" THEN ErrorGenerating ELSE <<>>
  /\ audioFile = <<>>
  /\ twiml = <<>>
  /\ files = {}
  /\ calls = [p \in Providers |-> [n |-> 0, last |-> "none"]]
  /\ scamArgs = <<>>
  /\ sonarQuery = <<>>
  /\ pushBodies = <<>>
  /\ pushed = <<>>
  /\ out = <<>>

\* if (!userMessage): there is nothing to process
NoMessage_Ignored(m) == FALSE

NoMessage(m) == m = <<>>

\* if (!userMessage) after transcribeAudio: nothing was transcribed
NoTranscript_Ignored(text) == FALSE

NoTranscript(text) == text = <<>>

\* if (inputType === "audio") / if (isAudioInput): speech is synthesized
WantsVoice_NotText(kind) == kind # "text"

WantsVoice(kind) == kind = "audio"

\* twiml.message(text); res.writeHead(...); res.end(twiml.toString()); return
ReplyAndReturn(text) ==
  /\ twiml' = Append(twiml, Message(text, <<>>))
  /\ out' = Append(out, TwimlOut(twiml'))
  /\ pc' = "done"

\* The handler up to its first await: parsing, and the configuration check
\* of step 1 / step 1b.
Receive ==
  /\ pc = "start"
  /\ req.Body # BodyList
  /\ userMessage' = Trim(req.Body)
  /\ IF variant = "part_001"
     THEN /\ UNCHANGED <<inputType, out>>
          /\ IF NoMessage(Trim(req.Body))
             THEN /\ twiml' = Append(twiml, Message(PleaseSend(variant), <<>>))
                  /\ pc' = "respond"
             ELSE /\ pc' = "sonar"
                  /\ UNCHANGED twiml
     ELSE IF IsAudio(req.MediaContentType0)
     THEN /\ inputType' = "audio"
          /\ IF TokenNotConfigured
             THEN ReplyAndReturn(AudioNotConfigured)
             ELSE pc' = "download" /\ UNCHANGED <<twiml, out>>
     ELSE IF IsImage(req.MediaContentType0)
     THEN /\ inputType' = "image"
          /\ IF variant = "part_002" /\ TokenNotConfigured
             THEN ReplyAndReturn(ImageNotConfigured)
             ELSE pc' = "download" /\ UNCHANGED <<twiml, out>>
     ELSE /\ pc' = "checkMessage"
          /\ UNCHANGED <<inputType, twiml, out>>
  /\ UNCHANGED <<inputs, toolData, reply, finalResponse, audioFile, files, calls,
                 scamArgs, sonarQuery, pushBodies, pushed>>

\* What the catch of step 1 / step 1b answers
MediaTrouble == IF inputType = "audio" THEN AudioTrouble ELSE ImageTrouble(variant)

\* downloadMedia throws before any request when the credentials are missing
DownloadNotConfigured ==
  /\ pc = "download"
  /\ CredentialsMissing
  /\ calls' = NotCalled("download", "unconfigured")
  /\ ReplyAndReturn(MediaTrouble)
  /\ UNCHANGED <<inputs, userMessage, inputType, toolData, reply, finalResponse,
                 audioFile, files, scamArgs, sonarQuery, pushBodies, pushed>>

\* downloadMedia with its error swallowed: the handler goes on to the
\* normalizer as if the buffer had arrived
DownloadFails_Continues ==
  /\ pc = "download"
  /\ ~CredentialsMissing
  /\ calls' = Called("download", "failed")
  /\ pc' = IF inputType = "audio" THEN "transcribe" ELSE "image"
  /\ UNCHANGED <<inputs, userMessage, inputType, toolData, reply, finalResponse,
                 audioFile, twiml, files, scamArgs, sonarQuery, pushBodies, pushed,
                 out>>

\* downloadMedia: the transport rejects the authenticated request
DownloadFails ==
  /\ pc = "download"
  /\ ~CredentialsMissing
  /\ calls' = Called("download", "failed")
  /\ ReplyAndReturn(MediaTrouble)
  /\ UNCHANGED <<inputs, userMessage, inputType, toolData, reply, finalResponse,
                 audioFile, files, scamArgs, sonarQuery, pushBodies, pushed>>

\* downloadMedia returns the buffer
DownloadOk ==
  /\ pc = "download"
  /\ ~CredentialsMissing
  /\ calls' = Called("download", "ok")
  /\ pc' = IF inputType = "audio" THEN "transcribe" ELSE "image"
  /\ UNCHANGED <<inputs, userMessage, inputType, toolData, reply, finalResponse,
                 audioFile, twiml, files, scamArgs, sonarQuery, pushBodies, pushed,
                 out>>

\* userMessage = await transcribeAudio(...), and the check of its result
Transcribed(text) ==
  /\ userMessage' = text
  /\ IF NoTranscript(text)
     THEN ReplyAndReturn(TranscribeFailed)
     ELSE pc' = "checkMessage" /\ UNCHANGED <<twiml, out>>
  /\ UNCHANGED <<inputs, inputType, toolData, reply, finalResponse, audioFile,
                 files, scamArgs, sonarQuery, pushBodies, pushed>>

\* transcribeAudio without a Deepgram client
TranscribeNoClient ==
  /\ pc = "transcribe"
  /\ ~env.deepgram
  /\ Transcribed(<<>>)
  /\ calls' = NotCalled("transcribe", "noclient")

\* transcribeAudio: the provider answers (an error and an empty transcript
\* both give "")
TranscribeAudio ==
  /\ pc = "transcribe"
  /\ env.deepgram
  /\ \E text \in Transcripts \cup {<<>>} :
       /\ Transcribed(text)
       /\ calls' = Called("transcribe", IF text = <<>> THEN "empty" ELSE "text")

TopLabels == 5

TopObjects == 3

MinOf(a, b) == IF a <= b THEN a ELSE b

Bold(s, k) == <<STAR, STAR, Lit(s, k), STAR, STAR>>

\* The text analyzeImage builds from the three results of the vision provider
ImageAnalysis(text, labels, objects) ==
  Bold("Image Analysis:", 15) \o <<NL, NL>>
  \o (IF text # <<>> THEN Bold("Text detected:", 14) \o <<SP>> \o text \o <<NL, NL>>
      ELSE <<>>)
  \o (IF labels > 0
      THEN Bold("Objects/Content detected:", 25) \o <<NL>>
           \o Repeat(<<Ch("bullet"), SP, Lit("label (90% confidence)", 22), NL>>,
                     MinOf(labels, TopLabels))
           \o <<NL>>
      ELSE <<>>)
  \o (IF objects > 0
      THEN Bold("Specific objects found:", 23) \o <<NL>>
           \o Repeat(<<Ch("bullet"), SP, Lit("object (80% confidence)", 23), NL>>,
                     MinOf(objects, TopObjects))
      ELSE <<>>)

\* index.js step 1b after analyzeImage: the caption and the analysis combined
ImageAnalyzed(analysis) ==
  /\ userMessage' = IF userMessage # <<>>
                    THEN userMessage \o <<NL, NL>> \o analysis
                    ELSE analysis
  /\ pc' = "checkMessage"
  /\ UNCHANGED <<inputs, inputType, toolData, reply, finalResponse, audioFile,
                 twiml, files, scamArgs, sonarQuery, pushBodies, pushed, out>>

\* analyzeImage without a vision client
AnalyzeImageNoClient ==
  /\ pc = "image" /\ variant = "index.js"
  /\ ~env.vision
  /\ ImageAnalyzed(VisionNotAvailable)
  /\ calls' = NotCalled("vision", "noclient")

\* analyzeImage: one of the three calls of the vision provider fails
AnalyzeImageFails ==
  /\ pc = "image" /\ variant = "index.js"
  /\ env.vision
  /\ calls' = Called("vision", "failed")
  /\ ImageAnalyzed(VisionError)

\* analyzeImage: text detection, label detection and object localization
AnalyzeImage ==
  /\ pc = "image" /\ variant = "index.js"
  /\ env.vision
  /\ calls' = Called("vision", "ok")
  /\ \E text \in DetectedTexts, labels \in LabelCounts, objects \in ObjectCounts :
       ImageAnalyzed(ImageAnalysis(text, labels, objects))

\* part_002 step 1.5: userMessage = await extractTextFromImage(...) (the OCR
\* text trimmed, "" on an error), and the check of its result
ExtractTextFromImage ==
  /\ pc = "image" /\ variant = "part_002"
  /\ \E text \in OcrTexts \cup {<<>>} :
       /\ calls' = Called("ocr", IF Trim(text) = <<>> THEN "empty" ELSE "text")
       /\ userMessage' = Trim(text)
       /\ IF Trim(text) = <<>>
          THEN ReplyAndReturn(OcrEmpty)
          ELSE pc' = "checkMessage" /\ UNCHANGED <<twiml, out>>
  /\ UNCHANGED <<inputs, inputType, toolData, reply, finalResponse, audioFile,
                 files, scamArgs, sonarQuery, pushBodies, pushed>>

\* if (!userMessage) ... else { const url = extractURL(userMessage); ...
CheckMessage ==
  /\ pc = "checkMessage"
  /\ IF NoMessage(userMessage)
     THEN /\ twiml' = Append(twiml, Message(PleaseSend(variant), <<>>))
          /\ pc' = "respond"
     ELSE /\ pc' = IF extractURL(userMessage) = <<>> THEN "sonar"
                   ELSE IF variant = "index.js" THEN "scam" ELSE "transcriptApi"
          /\ UNCHANGED twiml
  /\ UNCHANGED <<inputs, userMessage, inputType, toolData, reply, finalResponse,
                 audioFile, files, calls, scamArgs, sonarQuery, pushBodies, pushed,
                 out>>

\* `Scam Score for ${url}: ${res.data.body?.scam_score || "Unknown"}`
ScamScoreText(url, score) ==
  <<Lit("Scam Score for ", 15)>> \o url \o <<Lit(": ", 2)>>
    \o (IF score = <<>> THEN Msg("Unknown", 7) ELSE score)

\* index.js step 2: toolData = await scamMinderTool(url)
ScamMinder(result) ==
  /\ pc = "scam"
  /\ calls' = Called("scam", IF result = ScamFailed THEN "failed" ELSE "ok")
  /\ scamArgs' = Append(scamArgs, extractURL(userMessage))
  /\ toolData' = result
  /\ pc' = "sonar"
  /\ UNCHANGED <<inputs, userMessage, inputType, reply, finalResponse, audioFile,
                 twiml, files, sonarQuery, pushBodies, pushed, out>>

\* scamMinderTool: the lookup answers
ScamMinderOk ==
  \E score \in ScamScores : ScamMinder(ScamScoreText(extractURL(userMessage), score))

\* scamMinderTool without its try/catch: the error reaches the catch of the
\* handler
ScamMinderFails_Throws ==
  /\ pc = "scam"
  /\ calls' = Called("scam", "failed")
  /\ scamArgs' = Append(scamArgs, extractURL(userMessage))
  /\ twiml' = Append(twiml, Message(Apology, <<>>))
  /\ pc' = "respond"
  /\ UNCHANGED <<inputs, userMessage, inputType, toolData, reply, finalResponse,
                 audioFile, files, sonarQuery, pushBodies, pushed, out>>

\* scamMinderTool: the lookup fails, and the fixed placeholder is returned
ScamMinderFails == ScamMinder(ScamFailed)

\* part_002 step 2: the content-extraction service returns a transcript, which
\* replaces the user message
GetTranscriptOk ==
  /\ pc = "transcriptApi"
  /\ calls' = Called("transcriptApi", "ok")
  /\ \E transcript \in ApiTranscripts : userMessage' = transcript
  /\ pc' = "sonar"
  /\ UNCHANGED <<inputs, inputType, toolData, reply, finalResponse, audioFile,
                 twiml, files, scamArgs, sonarQuery, pushBodies, pushed, out>>

\* part_002 step 2: getTranscriptFromAPI returns null (no transcript, an
\* unsuccessful answer, a timeout or an error)
GetTranscriptFails ==
  /\ pc = "transcriptApi"
  /\ calls' = Called("transcriptApi", "failed")
  /\ ReplyAndReturn(UrlFailed)
  /\ UNCHANGED <<inputs, userMessage, inputType, toolData, reply, finalResponse,
                 audioFile, files, scamArgs, sonarQuery, pushBodies, pushed>>

FactCheckPrefix ==
  Msg("Please fact-check this content. If it's from Instagram, YouTube, or website, provide a summary and fact-check. If the content is in Hindi or another language, respond in English. Content to analyze: ", 199)

\* The content of the user message of the request to the reasoning provider
UserContent ==
  IF variant = "part_001" THEN userMessage
  ELSE IF variant = "index.js"
  THEN <<Lit("User Query: ", 12)>> \o userMessage
         \o <<NL, NL, Lit("External Scam Data: ", 20)>>
         \o (IF toolData # <<>> THEN toolData ELSE NoAdditionalData)
  ELSE FactCheckPrefix \o userMessage

\* step 3: openai.chat.completions.create throws; the catch of the handler
\* answers the apology
QuerySonarFails ==
  /\ pc = "sonar"
  /\ calls' = Called("sonar", "failed")
  /\ sonarQuery' = Append(sonarQuery, UserContent)
  /\ twiml' = Append(twiml, Message(Apology, <<>>))
  /\ pc' = "respond"
  /\ UNCHANGED <<inputs, userMessage, inputType, toolData, reply, finalResponse,
                 audioFile, files, scamArgs, pushBodies, pushed, out>>

\* step 3: the reasoning provider answers (content <<>>: no content, and the
\* reply is the fixed "I couldn't find an answer.")
QuerySonar ==
  /\ pc = "sonar"
  /\ calls' = Called("sonar", "ok")
  /\ sonarQuery' = Append(sonarQuery, UserContent)
  /\ \E content \in Replies \cup {<<>>} :
       reply' = IF content = <<>> THEN NoAnswer ELSE content
  /\ pc' = "build"
  /\ UNCHANGED <<inputs, userMessage, inputType, toolData, finalResponse,
                 audioFile, twiml, files, scamArgs, pushBodies, pushed, out>>

\* part_002 step 4: the response for each input kind
ComposeResponse(kind, message, answer) ==
  IF kind = "audio"
  THEN <<Lit("MEMO", 2), SP, STAR, Lit("Your message:", 13), STAR, SP, Ch("quote")>>
         \o sanitizeForXML(message) \o <<Ch("quote"), NL, NL>> \o answer
  ELSE IF kind = "image"
  THEN getVerificationStatus(answer) \o <<NL, NL, NL>> \o answer
  ELSE answer

\* index.js step 4: which synthesis provider is tried first
FirstTtsStep ==
  IF TTS_PROVIDER = "elevenlabs" /\ env.elevenKey THEN "ttsEleven"
  ELSE IF env.deepgram THEN "ttsDeepgram"
  ELSE "none"

\* After the reasoning provider answered: the reply is formatted and, for
\* text and image input (and always in part_001), put in the TwiML message;
\* for audio input speech synthesis comes first.
BuildResponse ==
  /\ pc = "build"
  /\ IF variant = "part_001"
     THEN /\ twiml' = Append(twiml, Message(reply, <<>>))
          /\ pc' = "respond"
          /\ UNCHANGED finalResponse
     ELSE IF variant = "index.js"
     THEN /\ finalResponse' = formatResponse(reply)
          /\ IF WantsVoice(inputType) /\ FirstTtsStep # "none"
             THEN pc' = FirstTtsStep /\ UNCHANGED twiml
             ELSE /\ twiml' = Append(twiml, Message(finalResponse', <<>>))
                  /\ pc' = "respond"
     ELSE IF WantsVoice(inputType)
     THEN /\ finalResponse' = ComposeResponse(inputType, userMessage, reply)
          /\ pc' = "ttsDeepgram"
          /\ UNCHANGED twiml
     ELSE /\ finalResponse' =
               BoundedResponse(ComposeResponse(inputType, userMessage, reply))
          /\ twiml' = Append(twiml, Message(finalResponse', <<>>))
          /\ pc' = "respond"
  /\ UNCHANGED <<inputs, userMessage, inputType, toolData, reply, audioFile, files,
                 calls, scamArgs, sonarQuery, pushBodies, pushed, out>>

\* `output_${Date.now()}.mp3`
OutputFile == Msg("output_<Date.now()>.mp3", 24)

\* A synthesis provider wrote the audio file
Synthesized ==
  /\ audioFile' = OutputFile
  /\ files' = files \cup {OutputFile}
  /\ pc' = "send"
  /\ UNCHANGED <<inputs, userMessage, inputType, toolData, reply, finalResponse,
                 twiml, scamArgs, sonarQuery, pushBodies, pushed, out>>

\* generateTTSWithElevenLabs returns the file name
TtsElevenLabsOk ==
  /\ pc = "ttsEleven"
  /\ calls' = Called("elevenlabs", "ok")
  /\ Synthesized

\* generateTTSWithElevenLabs returns null: Deepgram is tried when its client
\* exists
TtsElevenLabsFails ==
  /\ pc = "ttsEleven"
  /\ calls' = Called("elevenlabs", "failed")
  /\ pc' = IF env.deepgram THEN "ttsDeepgram" ELSE "send"
  /\ UNCHANGED <<inputs, userMessage, inputType, toolData, reply, finalResponse,
                 audioFile, twiml, files, scamArgs, sonarQuery, pushBodies, pushed,
                 out>>

\* generateTTS returns the file name
TtsDeepgramOk ==
  /\ pc = "ttsDeepgram"
  /\ env.deepgram
  /\ calls' = Called("deepgramTts", "ok")
  /\ Synthesized

\* generateTTS returns null: no client (no request is made), a provider
\* error, an unknown response format or a failed write
TtsDeepgramFails ==
  /\ pc = "ttsDeepgram"
  /\ calls' = IF env.deepgram THEN Called("deepgramTts", "failed")
               ELSE NotCalled("deepgramTts", "noclient")
  /\ pc' = "send"
  /\ UNCHANGED <<inputs, userMessage, inputType, toolData, reply, finalResponse,
                 audioFile, twiml, files, scamArgs, sonarQuery, pushBodies, pushed,
                 out>>

\* The text of the reply to a voice message: index.js sends the formatted
\* reply, part_002 the sanitized response
VoiceReplyText ==
  IF variant = "index.js" THEN finalResponse ELSE sanitizeForXML(finalResponse)

\* step 5 / step 6 for audio input: the text message, with the audio attached
\* when a file was synthesized and exists
SendVoiceReply ==
  /\ pc = "send"
  /\ twiml' = Append(twiml,
       Message(VoiceReplyText,
               IF audioFile # <<>> /\ audioFile \in files THEN <<audioFile>> ELSE <<>>))
  /\ pc' = "respond"
  /\ UNCHANGED <<inputs, userMessage, inputType, toolData, reply, finalResponse,
                 audioFile, files, calls, scamArgs, sonarQuery, pushBodies, pushed,
                 out>>

\* part_002: the REST fallback is attempted when the inbound Body holds a URL
\* and both credentials are set
PushWanted ==
  /\ variant = "part_002"
  /\ extractURL(req.Body) # <<>>
  /\ env.sid /\ env.token # "unset"

\* The end of the handler: the TwiML is written, unless the REST fallback is
\* attempted first
Respond ==
  /\ pc = "respond"
  /\ IF PushWanted
     THEN pc' = "push" /\ UNCHANGED out
     ELSE pc' = "done" /\ out' = Append(out, TwimlOut(twiml))
  /\ UNCHANGED <<inputs, userMessage, inputType, toolData, reply, finalResponse,
                 audioFile, twiml, files, calls, scamArgs, sonarQuery, pushBodies,
                 pushed>>

\* What is written after the push succeeded (sendResult.sid): the empty TwiML
PushOkResponse_Twiml(tw) == TwimlOut(tw)

PushOkResponse(tw) == EmptyAck

\* What is written after the push failed: the TwiML response, as usual
PushFailedResponse_Empty(tw) == EmptyAck

PushFailedResponse(tw) == TwimlOut(tw)

\* twilioClient.messages.create succeeds: the empty TwiML is returned.  The
\* call either resolves with the created message, which carries its sid, or
\* throws (PushFails); the text given to it has no media.
PushOk ==
  /\ pc = "push"
  /\ calls' = Called("push", "ok")
  /\ pushBodies' = Append(pushBodies, RestBody(finalResponse))
  /\ pushed' = Append(pushed, RestBody(finalResponse))
  /\ out' = Append(out, PushOkResponse(twiml))
  /\ pc' = "done"
  /\ UNCHANGED <<inputs, userMessage, inputType, toolData, reply, finalResponse,
                 audioFile, twiml, files, scamArgs, sonarQuery>>

\* twilioClient.messages.create throws: the error is logged and the TwiML is
\* written as usual
PushFails ==
  /\ pc = "push"
  /\ calls' = Called("push", "failed")
  /\ pushBodies' = Append(pushBodies, RestBody(finalResponse))
  /\ out' = Append(out, PushFailedResponse(twiml))
  /\ pc' = "done"
  /\ UNCHANGED <<inputs, userMessage, inputType, toolData, reply, finalResponse,
                 audioFile, twiml, files, scamArgs, sonarQuery, pushed>>

Next ==
  \/ Receive
  \/ DownloadNotConfigured
  \/ DownloadFails
  \/ DownloadOk
  \/ TranscribeNoClient
  \/ TranscribeAudio
  \/ AnalyzeImageNoClient
  \/ AnalyzeImageFails
  \/ AnalyzeImage
  \/ ExtractTextFromImage
  \/ CheckMessage
  \/ ScamMinderOk
  \/ ScamMinderFails
  \/ GetTranscriptOk
  \/ GetTranscriptFails
  \/ QuerySonarFails
  \/ QuerySonar
  \/ BuildResponse
  \/ TtsElevenLabsOk
  \/ TtsElevenLabsFails
  \/ TtsDeepgramOk
  \/ TtsDeepgramFails
  \/ SendVoiceReply
  \/ Respond
  \/ PushOk
  \/ PushFails

Spec == Init /\ [][Next]_vars

(***************************************************************************)
(* What reaches the end user: the messages of the HTTP responses, and the  *)
(* bodies the push delivered (a push carries no media).                    *)
(***************************************************************************)
RECURSIVE HttpMessages(_)
HttpMessages(o) == IF o = <<>> THEN <<>> ELSE Head(o).messages \o HttpMessages(Tail(o))

Deliveries == HttpMessages(out) \o [i \in 1..Len(pushed) |-> Message(pushed[i], <<>>)]

NoInput ==
  /\ Trim(req.Body) = <<>>
  /\ ~IsAudio(req.MediaContentType0)
  /\ ~IsImage(req.MediaContentType0)

\* C1: a request with no text (Body absent or only white space) and no audio
\* or image attachment makes no call to any external provider, and its
\* response is exactly one message, the fixed "Please send me a message"
\* notice of the revision that serves it.
C1_NoInputNotice ==
  NoInput =>
    /\ \A p \in Providers : calls[p].n = 0
    /\ pushed = <<>>
    /\ pc = "done" => out = <<TwimlOut(<<Message(PleaseSend(variant), <<>>)>>)>>

C1_Witness ==
  /\ NoInput /\ pc = "done" /\ variant = "part_002"
  /\ req.Body # <<>> /\ env.sid /\ env.token = "set"

\* C2: in part_002, once the reasoning provider was called, the text of the
\* message of the synchronous reply is at most 1500 characters long, for every
\* input kind.
C2_ReplyWithinLimit ==
  variant = "part_002" /\ calls["sonar"].n > 0 =>
    \A i \in 1..Len(twiml) : TextLen(twiml[i].body) <= WhatsAppLimit

\* C3: in part_002 at most one reply reaches the user: when the push
\* succeeded the HTTP response is the empty acknowledgment, and when the HTTP
\* response carries a message no push succeeded.
C3_AtMostOneReply ==
  variant = "part_002" =>
    /\ Len(pushed) <= 1
    /\ pushed # <<>> => pc = "done" /\ out = <<EmptyAck>>
    /\ HttpMessages(out) # <<>> => pushed = <<>>

C3_Witness == pushed # <<>> /\ pc = "done" /\ calls["sonar"].last = "ok"

\* C4: when the push send throws, the failure is swallowed: the HTTP response
\* written is the TwiML reply built before the push attempt, unchanged, and
\* it carries a message.
C4_PushFailureKeepsReply ==
  [][pc = "push" /\ calls'["push"].last = "failed" =>
       /\ twiml # <<>> /\ twiml' = twiml
       /\ out' = <<TwimlOut(twiml)>>
       /\ pushed' = <<>>
       /\ pc' = "done"]_vars

C4_Witness ==
  /\ calls["push"].last = "failed" /\ pc = "done"
  /\ out = <<TwimlOut(twiml)>> /\ calls["sonar"].last = "ok"

\* C5: when the call of the reasoning provider fails, every text that reaches
\* the user, by the HTTP response or by the push, is the fixed apology.
C5_OnlyApologyOnFailure ==
  calls["sonar"].last = "failed" =>
    \A i \in 1..Len(Deliveries) : Deliveries[i].body = Apology

\* C6: for an audio request whose reasoning call succeeded, exactly one reply
\* reaches the user; it has a text, and it has one audio reference when a file
\* was synthesized and none otherwise.
C6_VoiceReplyComplete ==
  IsAudio(req.MediaContentType0) /\ calls["sonar"].last = "ok" /\ pc = "done" =>
    /\ Len(Deliveries) = 1
    /\ Deliveries[1].body # <<>>
    /\ Len(Deliveries[1].media) = (IF audioFile # <<>> THEN 1 ELSE 0)

\* C7: for a request whose media type does not start with "audio" no speech
\* synthesis provider is called, no audio file is written and no message
\* carries a media reference.
C7_NoVoiceForTextOrImage ==
  ~IsAudio(req.MediaContentType0) =>
    /\ calls["elevenlabs"] = [n |-> 0, last |-> "none"]
    /\ calls["deepgramTts"] = [n |-> 0, last |-> "none"]
    /\ files = {} /\ audioFile = <<>>
    /\ \A i \in 1..Len(Deliveries) : Deliveries[i].media = <<>>

C7_Witness ==
  /\ IsImage(req.MediaContentType0) /\ variant = "index.js"
  /\ pc = "done" /\ calls["sonar"].last = "ok"
  /\ env.elevenKey /\ env.deepgram

\* C8: when the transcription of an audio attachment returns the empty string
\* (a provider error, an empty transcript or no client), the response is the
\* fixed "couldn't transcribe" notice alone, and no risk lookup, URL
\* extraction, reasoning, synthesis or push call is made.
C8_EmptyTranscriptNotice ==
  calls["transcribe"].last \in {"empty", "noclient"} =>
    /\ pc = "done"
    /\ out = <<TwimlOut(<<Message(TranscribeFailed, <<>>)>>)>>
    /\ pushed = <<>>
    /\ \A p \in {"scam", "transcriptApi", "sonar", "elevenlabs", "deepgramTts", "push"} :
         calls[p].n = 0

C8_Witness ==
  /\ calls["transcribe"].last = "empty" /\ pc = "done"
  /\ variant = "part_002" /\ PushWanted

\* The URL u is the first match of the URL pattern in t.
IsFirstUrl(t, u) ==
  \E i \in UrlStarts(t) :
    /\ \A j \in UrlStarts(t) : i <= j
    /\ u = SubSeq(t, i, NonSpaceEnd(t, i + 1))

\* C9: in index.js the risk lookup is called at most once, and only with a
\* URL of the query; when the reasoning provider is called for a query that
\* holds URLs, the lookup was called exactly once, with the first of them, and
\* the string it returned is the "External Scam Data" of the user message;
\* for a query that holds no URL it was not called.
C9_RiskLookupOnce ==
  variant = "index.js" =>
    /\ calls["scam"].n = Len(scamArgs) /\ Len(scamArgs) <= 1
    /\ scamArgs # <<>> => IsFirstUrl(userMessage, scamArgs[1])
    /\ sonarQuery # <<>> =>
         IF UrlStarts(userMessage) # {}
         THEN /\ Len(scamArgs) = 1
              /\ toolData # <<>>
              /\ sonarQuery = << <<Lit("User Query: ", 12)>> \o userMessage
                                   \o <<NL, NL, Lit("External Scam Data: ", 20)>>
                                   \o toolData >>
         ELSE scamArgs = <<>>

C9_Witness ==
  /\ variant = "index.js" /\ sonarQuery # <<>>
  /\ Cardinality(UrlStarts(userMessage)) >= 2

ScamDataOf(query) ==
  SubSeq(query, 1 + Len(<<Lit("User Query: ", 12)>> \o userMessage
                         \o <<NL, NL, Lit("External Scam Data: ", 20)>>), Len(query))

\* C10 as stated: after a failed risk lookup the reasoning provider is called
\* with "No additional data" as the enrichment part of the query.
C10_DegradesToNoAdditionalData ==
  variant = "index.js" /\ calls["scam"].last = "failed" /\ sonarQuery # <<>> =>
    ScamDataOf(sonarQuery[1]) = NoAdditionalData

\* C10 amended: a failed risk lookup never aborts the request: the request
\* does not end before the reasoning provider was called, the enrichment part
\* of the query is the fixed placeholder "Could not check scam status.", and
\* when the reasoning provider answers the user receives the formatted answer.
C10_LookupFailureNotFatal ==
  variant = "index.js" /\ calls["scam"].last = "failed" =>
    /\ pc \in {"respond", "done"} => calls["sonar"].n = 1
    /\ sonarQuery # <<>> =>
         ScamDataOf(sonarQuery[1]) = Msg("Could not check scam status.", 28)
    /\ pc = "done" /\ calls["sonar"].last = "ok" =>
         /\ Len(Deliveries) = 1
         /\ Deliveries[1].body = formatResponse(reply)

C10_Witness ==
  /\ variant = "index.js" /\ calls["scam"].last = "failed"
  /\ pc = "done" /\ calls["sonar"].last = "ok"

\* The providers behind the media fetch: normalizers, enrichment, reasoning,
\* synthesis and push
AfterDownload == Providers \ {"download"}

\* C11: when the fetch of an audio or image attachment fails, the transport
\* was asked exactly once (not at all when downloadMedia throws for missing
\* credentials), the request is over, its response is the fixed "trouble
\* processing" notice of the attachment kind alone, and no normalizer,
\* enrichment, reasoning, synthesis or push call was made.
C11_FetchFailureAborts ==
  calls["download"].last \in {"failed", "unconfigured"} =>
    /\ calls["download"].n = (IF calls["download"].last = "failed" THEN 1 ELSE 0)
    /\ pc = "done"
    /\ out = <<TwimlOut(<<Message(MediaTrouble, <<>>)>>)>>
    /\ pushed = <<>>
    /\ \A p \in AfterDownload : calls[p].n = 0

C11_Witness ==
  /\ calls["download"] = [n |-> 1, last |-> "failed"] /\ pc = "done"
  /\ inputType = "image" /\ variant = "index.js" /\ Trim(req.Body) # <<>>

\* The 'not configured' notice of the attachment kind
NotConfiguredNotice ==
  IF IsAudio(req.MediaContentType0) THEN AudioNotConfigured ELSE ImageNotConfigured

\* C12: when a transport credential is missing (the account SID or the auth
\* token) and the request carries an audio or an image attachment, no
\* provider is called (no media fetch, normalizer, reasoning, synthesis or
\* push), and the response is the fixed 'not configured' notice of the
\* attachment kind alone.
C12_NotConfiguredNotice ==
  /\ CredentialsMissing
  /\ IsAudio(req.MediaContentType0) \/ IsImage(req.MediaContentType0)
  => /\ \A p \in Providers : calls[p].n = 0
     /\ pc = "done" => out = <<TwimlOut(<<Message(NotConfiguredNotice, <<>>)>>)>>

\* Speech synthesis is over for the request
SynthesisOver == pc \in {"send", "respond", "done"} /\ calls["sonar"].last = "ok"

\* C13: in index.js, for an audio request, no synthesis provider is attempted
\* more than once, and when synthesis ends without an audio file while both
\* providers are configured, each of the two was attempted exactly once,
\* whichever of them TTS_PROVIDER makes the primary.
C13_FallbackOnce ==
  variant = "index.js" /\ IsAudio(req.MediaContentType0) =>
    /\ calls["elevenlabs"].n <= 1 /\ calls["deepgramTts"].n <= 1
    /\ SynthesisOver /\ audioFile = <<>> /\ env.elevenKey /\ env.deepgram =>
         calls["elevenlabs"].n = 1 /\ calls["deepgramTts"].n = 1

(***************************************************************************)
(* The sanitizers and the bounding step on their own: an answer of the    *)
(* reasoning provider is drawn from a set of short texts over the markup   *)
(* characters and of long texts of several shapes, and the functions of    *)
(* the handler are applied to it.                                          *)
(***************************************************************************)
MaxLen == 4

\* The characters of a short answer
Alphabet == {STAR, Ch("#"), Ch("&"), Ch("<"), SP, NL, Fill(ShortLen)}

MarkupAnswers == UNION {[1..n -> Alphabet] : n \in 1..MaxLen}

\* The status lines the system prompt asks the provider to start with
StatusLines ==
  { <<Lit("CHECK", 1), SP, Lit("VERIFIED", 8)>>,
    <<Lit("CROSS", 1), SP, Lit("UNVERIFIED/FAKE", 15)>>,
    <<Lit("WARNING", 2), SP, Lit("PARTIALLY", 9), SP, Lit("TRUE", 4)>> }

\* How a long answer starts: a status line, a status marker with the text on
\* the same line, or no marker at all
FirstLines ==
  StatusLines
    \cup {l \o <<SP, Fill(LongLen)>> : l \in StatusLines}
    \cup {<<Fill(ShortLen)>>, <<Fill(LongLen)>>,
          <<Fill(HardCut - 2), Ch("&"), Fill(LongLen)>>}

\* How a long answer goes on
Paragraphs ==
  { Repeat(<<Fill(LineLen), NL>>, ManyLines),
    Repeat(<<Fill(LineLen), NL>>, ManyLines) \o <<Fill(LongLen)>>,
    Repeat(<<Fill(LongLen), NL>>, ManyLines),
    <<Fill(LineLen), Ch("&"), NL>> \o Repeat(<<Fill(LineLen), NL>>, ManyLines),
    <<Fill(LineCut - 2), Ch("<"), Fill(LongLen)>>,
    <<Fill(LongLen)>> }

LongAnswers ==
  {f \o sep \o p : f \in FirstLines, sep \in {<<NL>>, <<NL, NL, NL>>}, p \in Paragraphs}

Answers == MarkupAnswers \cup Replies \cup LongAnswers

\* A configuration in which nothing is missing
TextEnv ==
  [sid |-> TRUE, token |-> "set", deepgram |-> TRUE, vision |-> TRUE,
   elevenKey |-> FALSE, ttsEnv |-> "unset"]

\* The handler holds the answer of the reasoning provider to a text or an
\* image request
TextInit ==
  /\ variant \in {"index.js", "part_002"}
  /\ env = TextEnv
  /\ inputType \in {"text", "image"}
  /\ req = [hasBody |-> TRUE, Body |-> <<Fill(ShortLen)>>,
            MediaContentType0 |-> IF inputType = "image" THEN "image/jpeg" ELSE "none"]
  /\ userMessage = <<Fill(ShortLen)>>
  /\ reply \in Answers
  /\ inputType = "image" => variant = "part_002" /\ reply \in LongAnswers
  /\ pc = "answer"
  /\ toolData = <<>>
  /\ finalResponse = IF variant = "part_002" THEN ErrorGenerating ELSE <<>>
  /\ audioFile = <<>>
  /\ twiml = <<>>
  /\ files = {}
  /\ calls = [p \in Providers |-> [n |-> 0, last |-> "none"]]
  /\ scamArgs = <<>>
  /\ sonarQuery = <<>>
  /\ pushBodies = <<>>
  /\ pushed = <<>>
  /\ out = <<>>

\* The sanitizer of the revision
Sanitizer(t) == IF variant = "index.js" THEN formatResponse(t) ELSE sanitizeForXML(t)

\* finalResponse = sanitizeForXML(reply) / formattedReply = formatResponse(reply)
SanitizeAnswer ==
  /\ pc = "answer"
  /\ finalResponse' = Sanitizer(reply)
  /\ pc' = "sanitized"
  /\ UNCHANGED <<inputs, userMessage, inputType, toolData, reply, audioFile, twiml,
                 files, calls, scamArgs, sonarQuery, pushBodies, pushed, out>>

\* The sanitizer applied to its own result
SanitizeAgain ==
  /\ pc = "sanitized"
  /\ finalResponse' = Sanitizer(finalResponse)
  /\ pc' = "resanitized"
  /\ UNCHANGED <<inputs, userMessage, inputType, toolData, reply, audioFile, twiml,
                 files, calls, scamArgs, sonarQuery, pushBodies, pushed, out>>

\* part_002 steps 4 and 6 of the text/image path: the response is composed,
\* sanitized and bounded
BoundAnswer ==
  /\ pc = "answer" /\ variant = "part_002"
  /\ finalResponse' = BoundedResponse(ComposeResponse(inputType, userMessage, reply))
  /\ pc' = "bounded"
  /\ UNCHANGED <<inputs, userMessage, inputType, toolData, reply, audioFile, twiml,
                 files, calls, scamArgs, sonarQuery, pushBodies, pushed, out>>

TextNext ==
  \/ SanitizeAnswer
  \/ SanitizeAgain
  \/ BoundAnswer

TextSpec == TextInit /\ [][TextNext]_vars

\* The composed response of part_002 after sanitizing, before bounding
SanitizedResponse == sanitizeForXML(ComposeResponse(inputType, userMessage, reply))

\* The text t ends with s.
EndsWith(t, s) == Len(t) >= Len(s) /\ SubSeq(t, Len(t) - Len(s) + 1, Len(t)) = s

\* C14: on the text/image path of part_002, when the sanitized answer is over
\* 1500 characters, the bounded output ends with the notice "Full analysis
\* available on request".
C14_EndsWithFullAnalysisNotice ==
  pc = "bounded" /\ TextLen(SanitizedResponse) > WhatsAppLimit =>
    EndsWith(finalResponse, FullAnalysisNotice)

\* The status lines step 4 puts before the answer to an image
ImageStatusLines ==
  { <<Lit("CHECK", 1), SP, Lit("VERIFIED", 8), SP, Lit("TRUE", 4)>>,
    <<Lit("CROSS", 1), SP, Lit("VERIFIED", 8), SP, Lit("FAKE", 4)>>,
    <<Lit("WARNING", 2), SP, Lit("VERIFICATION UNCLEAR", 20)>> }

MarkerLines == StatusLines \cup ImageStatusLines

\* The text t begins with s.
BeginsWith(t, s) == Len(t) >= Len(s) /\ SubSeq(t, 1, Len(s)) = s

\* The first line of t that is not blank
FirstNonEmptyLine(t) == NonEmptyLines(t)[1]

\* C15: on the text/image path of part_002, when the sanitized answer is over
\* 1500 characters, a status marker at the start of its first non-empty line
\* is the start of the bounded output, and when that line is a status line
\* (one of the three markers of the prompt, or the status line put before the
\* answer to an image) the bounded output begins with the whole line and the
\* line feed after it.
C15_StatusMarkerKept ==
  pc = "bounded" /\ TextLen(SanitizedResponse) > WhatsAppLimit =>
    LET line == FirstNonEmptyLine(SanitizedResponse)
    IN /\ \A m \in MarkerLines : BeginsWith(line, m) => BeginsWith(finalResponse, m)
       /\ line \in MarkerLines => BeginsWith(finalResponse, line \o <<NL>>)

C15_Witness ==
  /\ pc = "bounded" /\ TextLen(SanitizedResponse) > WhatsAppLimit
  /\ inputType = "text"
  /\ FirstNonEmptyLine(SanitizedResponse) \in StatusLines
  /\ EndsWith(finalResponse, FullAnalysisNotice)

\* The text t holds an emphasis marker ("*", and so "**") or a heading
\* marker ("#").
HasMarkup(t) == \E i \in 1..Len(t) : t[i].c \in {"*", "#"}

\* C16: the text the sanitizer of either revision makes of an answer holds no
\* "**", no "*" and no "#".
C16_NoMarkupLeft == pc = "sanitized" => ~HasMarkup(finalResponse)

\* C17: the sanitizer of either revision applied to its own result gives that
\* result again.
C17_SanitizerIdempotent == pc = "resanitized" => finalResponse = Sanitizer(reply)

\* The text t holds s.
Contains(t, s) == \E i \in 1..(Len(t) - Len(s) + 1) : SubSeq(t, i, i + Len(s) - 1) = s

\* The image normalizer of the revision ran (with or without its client)
ImageNormalized == calls["vision"].last # "none" \/ calls["ocr"].last # "none"

\* C18: for an image sent with a caption, the query given to the reasoning
\* provider holds the caption, and it holds the text the image normalizer
\* made of the image, in every revision of the handler.
C18_CaptionAndImageTextInQuery ==
  IsImage(req.MediaContentType0) /\ Trim(req.Body) # <<>> /\ sonarQuery # <<>> =>
    /\ Contains(sonarQuery[1], Trim(req.Body))
    /\ ImageNormalized /\ Contains(sonarQuery[1], userMessage)

\* C19: in part_002, whenever the push send is attempted, the body given to
\* it is the text of the one message of the TwiML reply built for the
\* request.
C19_PushBodyIsReplyText ==
  variant = "part_002" =>
    \A i \in 1..Len(pushBodies) : Len(twiml) = 1 /\ pushBodies[i] = twiml[1].body

\* The inbound Body holds a URL and both transport credentials are set
UrlAndCredentials == UrlStarts(req.Body) # {} /\ env.sid /\ env.token # "unset"

\* C20: in part_002 the push send is attempted at most once; it is never
\* attempted for a request whose Body holds no URL; and when the Body holds a
\* URL and both credentials are set, the HTTP response is not written before
\* the push send was attempted once, on every path of the handler.
C20_PushOnceBeforeResponse ==
  variant = "part_002" =>
    /\ calls["push"].n = Len(pushBodies) /\ calls["push"].n <= 1
    /\ UrlStarts(req.Body) = {} => calls["push"].n = 0
    /\ UrlAndCredentials /\ out # <<>> => calls["push"].n = 1

\* C21: in part_002 the message of the reply to a text or image request is
\* at most 1500 characters long, whatever the answer (also after the
\* line-based shortening and after the hard cut with its suffix), and every
\* body given to the push send is at most 1500 characters long, on every
\* path.
C21_TwoStageBound ==
  variant = "part_002" =>
    /\ ~IsAudio(req.MediaContentType0) =>
         \A i \in 1..Len(twiml) : TextLen(twiml[i].body) <= WhatsAppLimit
    /\ \A i \in 1..Len(pushBodies) : TextLen(pushBodies[i]) <= WhatsAppLimit

C21_Witness ==
  /\ variant = "part_002" /\ ~IsAudio(req.MediaContentType0)
  /\ pushBodies # <<>> /\ Len(twiml) = 1
  /\ EndsWith(twiml[1].body, TruncatedNotice)
  /\ TextLen(sanitizeForXML(ComposeResponse(inputType, userMessage, reply))) > WhatsAppLimit

\* The tails of the entities the escaping writes after "&"
EntityTails == {Lit("amp;", 4), Lit("lt;", 3), Lit("gt;", 3)}

\* In t no reserved character stands raw: there is no "<" and no ">", every
\* "&" is followed by the whole tail of an entity, and every tail is whole.
EntitiesComplete(t) ==
  \A i \in 1..Len(t) :
    /\ t[i].c \notin {"<", ">"}
    /\ t[i].c = "&" => i < Len(t) /\ t[i + 1] \in EntityTails
    /\ t[i].c \in {e.c : e \in EntityTails} => t[i] \in EntityTails

\* C22: in the message part_002 builds for a text or image request, every
\* "&", "<" and ">" of the answer stands as a whole entity, also after the
\* cut of a long line at 120 characters and after the hard cut at 1450.
C22_EntitiesComplete == pc = "bounded" => EntitiesComplete(finalResponse)

\* C23: every HTTP response the handler writes is the empty acknowledgment or
\* holds exactly one message; the message has a text that is not empty and at
\* most one media reference.
C23_OneMessagePerResponse ==
  \A k \in 1..Len(out) :
    \/ out[k] = EmptyAck
    \/ /\ out[k].kind = "twiml" /\ Len(out[k].messages) = 1
       /\ out[k].messages[1].body # <<>>
       /\ Len(out[k].messages[1].media) <= 1

\* The image normalizer gave no usable text: the vision client is missing or
\* failed, nothing was detected in the image, or the OCR read nothing.
NoUsableImageText ==
  \/ calls["vision"].last \in {"noclient", "failed"}
  \/ calls["vision"].last = "ok" /\ EndsWith(userMessage, ImageAnalysis(<<>>, 0, 0))
  \/ calls["ocr"].last = "empty"

\* C24: when the image normalizer gives no usable text the request is over
\* with one fixed notice as its response, and the reasoning provider is not
\* called.
C24_EmptyImageShortCircuits ==
  NoUsableImageText =>
    /\ calls["sonar"].n = 0 /\ sonarQuery = <<>>
    /\ pc = "done"
    /\ \E notice \in {OcrEmpty, ImageTrouble(variant)} :
         out = <<TwimlOut(<<Message(notice, <<>>)>>)>>

\* The URL found in the query is the whole query.
SoleUrl == userMessage = extractURL(userMessage)

\* C25: in part_002, when the content extraction for the URL of the query
\* fails, the request ends with the fixed "couldn't process the content from
\* that URL" notice and no reasoning call if the URL is the whole query; if
\* the query holds other text as well, the request does not end before the
\* reasoning provider was called, and the notice is not the response.
C25_UrlFailureAbortsOnlySoleUrl ==
  variant = "part_002" /\ calls["transcriptApi"].last = "failed" =>
    IF SoleUrl
    THEN /\ pc = "done" /\ calls["sonar"].n = 0
         /\ out = <<TwimlOut(<<Message(UrlFailed, <<>>)>>)>>
    ELSE /\ pc = "done" => calls["sonar"].n = 1
         /\ \A i \in 1..Len(twiml) : twiml[i].body # UrlFailed

(***************************************************************************)
(* Two audio requests served at the same time by index.js, from the call   *)
(* of generateTTS to the reply.  Here the variables of the handler hold    *)
(* one value for each request, env has the field now (the clock Date.now() *)
(* reads, in milliseconds), and files holds for every file name the        *)
(* request whose audio was written to it last.                             *)
(***************************************************************************)
Requests == {1, 2}

MaxClock == 2

\* `output_${Date.now()}.mp3` at the millisecond t
OutputFileAt(t) ==
  <<Lit("output_", 7), [c |-> "Date.now()", n |-> 13, ms |-> t], Lit(".mp3", 4)>>

ConcInit ==
  /\ variant = "index.js"
  /\ env = [sid |-> TRUE, token |-> "set", deepgram |-> TRUE, vision |-> TRUE,
            elevenKey |-> FALSE, ttsEnv |-> "unset", now |-> 0]
  /\ req = [r \in Requests |->
              [hasBody |-> FALSE, Body |-> <<>>, MediaContentType0 |-> "audio/ogg"]]
  /\ pc = [r \in Requests |-> "ttsDeepgram"]
  /\ userMessage \in [Requests -> {<<Fill(ShortLen)>>}]
  /\ inputType = [r \in Requests |-> "audio"]
  /\ reply \in [Requests -> {NoAnswer, <<Fill(ShortLen), Ch("."), SP, Fill(ShortLen)>>}]
  /\ finalResponse = [r \in Requests |-> formatResponse(reply[r])]
  /\ audioFile = [r \in Requests |-> <<>>]
  /\ twiml = [r \in Requests |-> <<>>]
  /\ out = [r \in Requests |-> <<>>]
  /\ files = {}
  /\ toolData = <<>>
  /\ calls = [p \in Providers |-> [n |-> 0, last |-> "none"]]
  /\ scamArgs = <<>>
  /\ sonarQuery = <<>>
  /\ pushBodies = <<>>
  /\ pushed = <<>>

\* A millisecond passes
Tick ==
  /\ env.now < MaxClock
  /\ env' = [env EXCEPT !.now = @ + 1]
  /\ UNCHANGED <<variant, req, pc, userMessage, inputType, toolData, reply,
                 finalResponse, audioFile, twiml, files, calls, scamArgs,
                 sonarQuery, pushBodies, pushed, out>>

\* generateTTS of request r: the provider answered and the file name is made
\* from the clock; the audio is read from the answer next (an await)
NameAudioFile(r) ==
  /\ pc[r] = "ttsDeepgram"
  /\ audioFile' = [audioFile EXCEPT ![r] = OutputFileAt(env.now)]
  /\ pc' = [pc EXCEPT ![r] = "write"]
  /\ UNCHANGED <<inputs, userMessage, inputType, toolData, reply, finalResponse,
                 twiml, files, calls, scamArgs, sonarQuery, pushBodies, pushed, out>>

\* generateTTS of request r: fs.writeFileSync(filename, buffer) replaces what
\* the file held, and the name is returned
WriteAudioFile(r) ==
  /\ pc[r] = "write"
  /\ files' = {f \in files : f.name # audioFile[r]}
                \cup {[name |-> audioFile[r], audio |-> r]}
  /\ pc' = [pc EXCEPT ![r] = "send"]
  /\ UNCHANGED <<inputs, userMessage, inputType, toolData, reply, finalResponse,
                 audioFile, twiml, calls, scamArgs, sonarQuery, pushBodies,
                 pushed, out>>

\* generateTTS of request r returns null
SynthesisFails(r) ==
  /\ pc[r] = "ttsDeepgram"
  /\ pc' = [pc EXCEPT ![r] = "send"]
  /\ UNCHANGED <<inputs, userMessage, inputType, toolData, reply, finalResponse,
                 audioFile, twiml, files, calls, scamArgs, sonarQuery, pushBodies,
                 pushed, out>>

\* step 5 of request r and the end of the handler: the reply with the
\* reference to the audio file, when there is one
SendReply(r) ==
  /\ pc[r] = "send"
  /\ twiml' = [twiml EXCEPT ![r] =
       Append(@, Message(finalResponse[r],
                         IF audioFile[r] # <<>> /\ \E f \in files : f.name = audioFile[r]
                         THEN <<audioFile[r]>> ELSE <<>>))]
  /\ out' = [out EXCEPT ![r] = Append(@, TwimlOut(twiml'[r]))]
  /\ pc' = [pc EXCEPT ![r] = "done"]
  /\ UNCHANGED <<inputs, userMessage, inputType, toolData, reply, finalResponse,
                 audioFile, files, calls, scamArgs, sonarQuery, pushBodies, pushed>>

ConcNext ==
  \/ Tick
  \/ \E r \in Requests : NameAudioFile(r)
  \/ \E r \in Requests : WriteAudioFile(r)
  \/ \E r \in Requests : SynthesisFails(r)
  \/ \E r \in Requests : SendReply(r)

ConcSpec == ConcInit /\ [][ConcNext]_vars

\* The request whose audio app.use('/audio', express.static('./')) serves
\* under the name
ServedAudio(name) == (CHOOSE f \in files : f.name = name).audio

\* C26: two requests that both wrote an audio file wrote files of different
\* names, and every audio reference in the reply of a request names a file
\* that holds the audio synthesized for that request.
C26_OwnAudioFile ==
  /\ \A r1, r2 \in Requests :
       r1 # r2 /\ pc[r1] \in {"send", "done"} /\ pc[r2] \in {"send", "done"}
         /\ audioFile[r1] # <<>> /\ audioFile[r2] # <<>>
       => audioFile[r1] # audioFile[r2]
  /\ \A r \in Requests : \A i \in 1..Len(twiml[r]) :
       \A k \in 1..Len(twiml[r][i].media) : ServedAudio(twiml[r][i].media[k]) = r

\* The functions that turn the media of a request into text
Normalizers == {"transcribe", "vision", "ocr"}

\* The provider p was called in this request
Ran(p) == calls[p].n > 0

\* Within one request every provider is called at most once, at most one
\* normalizer runs and it is the one of the media type (transcription for
\* audio, image analysis or OCR for an image), speech synthesis is tried a
\* second time only with Deepgram after ElevenLabs failed, and once the
\* reasoning provider was called no media is fetched or normalized; in index.js
\* and part_002 the normalizer of the media type has returned by then.
EachStageOnce ==
  /\ \A p \in Providers : calls[p].n <= 1
  /\ \A p, q \in Normalizers : Ran(p) /\ Ran(q) => p = q
  /\ Ran("transcribe") => IsAudio(req.MediaContentType0)
  /\ Ran("vision") \/ Ran("ocr") => IsImage(req.MediaContentType0)
  /\ Ran("elevenlabs") /\ Ran("deepgramTts") => calls["elevenlabs"].last = "failed"
  /\ variant # "part_001" /\ Ran("sonar") =>
       /\ IsAudio(req.MediaContentType0) => calls["transcribe"].last # "none"
       /\ IsImage(req.MediaContentType0) =>
            \E p \in {"vision", "ocr"} : calls[p].last # "none"

\* Once the reasoning provider was called, no media is fetched or normalized
ReasoningAfterNormalization ==
  [][Ran("sonar") => \A p \in Normalizers \cup {"download"} : calls'[p] = calls[p]]_vars

\* C27: every stage of a request runs at most once, as stated by
\* EachStageOnce in every state, and the reasoning call never precedes
\* the fetch or the normalization of the media.
C27_OnceAndInOrder == []EachStageOnce /\ ReasoningAfterNormalization

\* An audio request that went through fetch, transcription, risk lookup,
\* reasoning and both speech providers
C27_Witness ==
  /\ pc = "done"
  /\ \A p \in {"download", "transcribe", "scam", "sonar", "elevenlabs", "deepgramTts"} :
       calls[p].n = 1

(***************************************************************************)
(* The webhook as any HTTP client can call it.  bodyParser.urlencoded      *)
(* ({ extended: false }) gives an array for a parameter that the form      *)
(* holds more than once, so req.body.Body need not be a string.            *)
(***************************************************************************)
\* What the framework writes for an error the handler let escape
ErrorPage == [kind |-> "error", messages |-> <<>>]

WebhookInit ==
  /\ variant \in Variants
  /\ env \in Envs(variant)
  /\ req \in [hasBody : BOOLEAN, Body : Bodies \cup {BodyList},
              MediaContentType0 : MediaTypes]
  /\ req.hasBody \/ req.Body = <<>>
  /\ pc = "start"
  /\ userMessage = <<>>
  /\ inputType = "text"
  /\ toolData = <<>>
  /\ reply = <<>>
  /\ finalResponse = IF variant = "part_002" THEN ErrorGenerating ELSE <<>>
  /\ audioFile = <<>>
  /\ twiml = <<>>
  /\ files = {}
  /\ calls = [p \in Providers |-> [n |-> 0, last |-> "none"]]
  /\ scamArgs = <<>>
  /\ sonarQuery = <<>>
  /\ pushBodies = <<>>
  /\ pushed = <<>>
  /\ out = <<>>

\* req.body.Body?.trim() on an array: a TypeError in the first statements of
\* the handler, which no try block encloses.  The promise of the async
\* handler is rejected; the framework either ignores it, and nothing is ever
\* written, or hands it to its error handler, which writes an error page.
ReceiveBodyList ==
  /\ pc = "start"
  /\ req.Body = BodyList
  /\ pc' = "rejected"
  /\ out' \in {out, Append(out, ErrorPage)}
  /\ UNCHANGED <<inputs, userMessage, inputType, toolData, reply, finalResponse,
                 audioFile, twiml, files, calls, scamArgs, sonarQuery, pushBodies,
                 pushed>>

WebhookNext ==
  \/ ReceiveBodyList
  \/ Next

WebhookSpec == WebhookInit /\ [][WebhookNext]_vars

\* The handler of the request has returned or thrown
Finished == pc \in {"done", "rejected"}

\* C28: the handler writes at most one response, it has written exactly one
\* when it is over, and a response that was written is not written again.
C28_ExactlyOneResponse ==
  /\ Len(out) <= 1
  /\ Finished => Len(out) = 1
  /\ Len(out) = 1 => Finished

\* The marker the system prompt asks for in front of a claim found false
UnverifiedMarker == <<Lit("CROSS", 1), SP, Lit("UNVERIFIED/FAKE", 15)>>

VerifiedTrue == <<Lit("CHECK", 1), SP, Lit("VERIFIED", 8), SP, Lit("TRUE", 4)>>

VerifiedFake == <<Lit("CROSS", 1), SP, Lit("VERIFIED", 8), SP, Lit("FAKE", 4)>>

\* C29: in part_002, when the answer to an image begins with the marker of a
\* false claim, the message sent begins with the status "VERIFIED FAKE" and
\* not with "VERIFIED TRUE".
C29_StatusAgreesWithMarker ==
  /\ variant = "part_002"
  /\ inputType = "image"
  /\ BeginsWith(reply, UnverifiedMarker)
  /\ Len(twiml) = 1
  => /\ BeginsWith(twiml[1].body, VerifiedFake)
     /\ ~BeginsWith(twiml[1].body, VerifiedTrue)

====
